---- MODULE Spec2Model ----
(***************************************************************************)
(* Model of tg_listener_local_bridge.py: the Telegram -> signal converter  *)
(* relay.  Every NewMessage event starts one run of on_new_message; runs   *)
(* are asyncio tasks on one event loop, so a run executes atomically from  *)
(* one network await to the next and several runs may be suspended at      *)
(* their network calls at the same time.  The shared state is the          *)
(* watermark dictionary `state`, the state file, and the module globals    *)
(* _converter_token / _token_ts.                                           *)
(***************************************************************************)
EXTENDS Integers, Sequences, FiniteSets, Bags, TLC

(***************************************************************************)
(* Bounds of the model.                                                    *)
(***************************************************************************)
MaxMsg == 2        \* message ids of a chat are 1..MaxMsg
MaxCalls == 4      \* network calls (login and convert-send POSTs) issued
MaxWaits == 6      \* consecutive failed connection attempts
MaxLines == 4      \* lines of a message text
MaxRoom == 3       \* room and master numbers of the hints drawn

(***************************************************************************)
(* Configuration.                                                          *)
(***************************************************************************)
TOKEN_TTL == 540

\* The clock advances in steps of half a TTL.
TickStep == TOKEN_TTL \div 2

\* Chat ids: c2 and c3 are the two chats of CHAT_MASTER_MAP / CHAT_ROOM_MAP,
\* cx is whitelisted but has no master, cy is not whitelisted.
Chats == {"c2", "c3", "cx", "cy"}

ALLOWED_CHAT_IDS == {"c2", "c3", "cx"}

\* A routing name: kind "room"/"master" followed by an optional underscore
\* and a number; kind "none" is the empty string / a missing map entry.
Name(k, u, n) == [kind |-> k, us |-> u, num |-> n]

NoName == Name("none", FALSE, 0)

CHAT_MASTER_MAP(c) ==
    CASE c = "c2" -> Name("master", TRUE, 2)
      [] c = "c3" -> Name("master", TRUE, 3)
      [] OTHER -> NoName

CHAT_ROOM_MAP(c) ==
    CASE c = "c2" -> Name("room", FALSE, 2)
      [] c = "c3" -> Name("room", FALSE, 3)
      [] OTHER -> NoName

\* re.sub(r"^master_", "room", master_hint)
RoomFromMaster(master_hint) ==
    IF master_hint.kind = "master" /\ master_hint.us
    THEN Name("room", FALSE, master_hint.num)
    ELSE master_hint

RoomHint(c) ==
    IF CHAT_ROOM_MAP(c) # NoName THEN CHAT_ROOM_MAP(c)
    ELSE RoomFromMaster(CHAT_MASTER_MAP(c))

Msgs == 1..MaxMsg

\* The events drawn: every message id of chat c2; one message of c3 and of
\* the chats that are dropped before their message is looked at.
EventIds(c) == IF c = "c2" THEN Msgs ELSE {1}

(***************************************************************************)
(* Message texts, by the fields the classifier looks for.                  *)
(***************************************************************************)
Text(d, e, a, t, s) == [dir |-> d, entry |-> e, at |-> a, tp |-> t, sl |-> s]

Texts == {
    Text(TRUE, TRUE, FALSE, TRUE, TRUE),     \* Sell / Entry: / TP: / SL:
    Text(TRUE, FALSE, TRUE, TRUE, TRUE),     \* Sell @1.25 / TP: / SL:
    Text(TRUE, TRUE, FALSE, TRUE, FALSE),    \* no stop loss
    Text(FALSE, FALSE, FALSE, FALSE, FALSE)  \* chatter or empty text
}

looks_like_signal_NoStop(text) ==
    text.dir /\ (text.entry \/ text.at) /\ text.tp

looks_like_signal(text) ==
    LET has_direction == text.dir
        has_entry == text.entry \/ text.at
        has_tp == text.tp
        has_sl == text.sl
    IN  has_direction /\ has_entry /\ has_tp /\ has_sl

(***************************************************************************)
(* Downstream responses.                                                   *)
(***************************************************************************)
NoToken == "none"

Tokens == {"t1", "t2"}

\* login: 200 with a token, non-200, 200 without token, exception/timeout
LoginFailures == {"non200", "notoken", "exc"}

\* convert-send: 200 ok=true, 200 ok=false, 400 "Pair non trovato", other
\* 400, 401 or 403 ("unauth"), any other status, exception (timeout,
\* connection error, body that is not JSON)
PostResponses ==
    {"ok200", "notok200", "marker400", "other400", "unauth", "other", "exc"}

VARIABLES
    state,             \* watermark dict: chat -> last sent message id (0: absent)
    disk,              \* content of STATE_FILE
    converter_token,   \* _converter_token
    token_age,         \* time.time() - _token_ts, counted up to TOKEN_TTL
    inflight,          \* bag of suspended on_new_message runs
    delivered,         \* history: (chat, msg) the converter answered ok=true for
    calls,             \* history: number of network calls issued
    lastStep,          \* history: what the last step did
    obs,               \* which part of a step lastStep records (fixed by Init)
    loop,              \* the reconnect loop of run_telethon_forever
    canon,             \* a text and what on_new_message makes of it
    cand               \* a payload's hints and its candidate routing names

vars == <<state, disk, converter_token, token_age, inflight, delivered,
          calls, lastStep, obs, loop, canon, cand>>


(***************************************************************************)
(* send_to_converter: candidate routing names.                             *)
(***************************************************************************)
Range(seq) == {seq[i] : i \in 1..Len(seq)}

Push_NoDedup(out, v) == IF v = NoName THEN out ELSE Append(out, v)

\* _push: skip empty and already seen values
Push(out, v) == IF v = NoName \/ v \in Range(out) THEN out ELSE Append(out, v)

candidate_rooms(room_hint, master_hint) ==
    LET o1 == Push(<<>>, room_hint)
        o2 == Push(o1, master_hint)
        o3 == IF room_hint.kind = "room"
              THEN Push(Push(o2, Name("room", FALSE, room_hint.num)),
                        Name("room", TRUE, room_hint.num))
              ELSE o2
        o4 == IF master_hint.kind = "master"
              THEN Push(Push(o3, Name("room", FALSE, master_hint.num)),
                        Name("room", TRUE, master_hint.num))
              ELSE o3
    IN  o4

\* the rooms of the payload built for chat c
Rooms(c) == candidate_rooms(RoomHint(c), CHAT_MASTER_MAP(c))

FirstRoom_Last(rooms) == IF Len(rooms) > 0 THEN rooms[Len(rooms)] ELSE NoName

\* rooms[0] if rooms else ""
FirstRoom(rooms) == IF Len(rooms) > 0 THEN rooms[1] ELSE NoName

NextAlt_GiveUp(rooms, i) == 0

NextAlt_Wrap(rooms, i) == IF i < Len(rooms) THEN i + 1 ELSE 1

\* the for loop over rooms[1:]: position of the candidate after position i
\* (positions count from 1), 0 when the list is exhausted
NextAlt(rooms, i) == IF i < Len(rooms) THEN i + 1 ELSE 0

(***************************************************************************)
(* Conditions of on_new_message and ensure_converter_token.                *)
(***************************************************************************)
IsStale_Strict(msg_id, last_id) == msg_id < last_id

\* if msg_id <= last_id: return
IsStale(msg_id, last_id) == msg_id <= last_id

UseCached_Never(force, tok, age) == FALSE

\* if not force and _converter_token and (time.time() - _token_ts) < TOKEN_TTL
UseCached(force, tok, age) == ~force /\ tok # NoToken /\ age < TOKEN_TTL

\* _converter_token after a login answer r: assigned only when a token came
TokenAfterLogin(tok, r) == IF r \in Tokens THEN r ELSE tok

Raises_Never(r) == FALSE

\* the answer makes the awaited POST (or reading its body) raise, which
\* `except Exception` of send_to_converter catches
Raises(r) == r = "exc"

StateAfterSend_Always(st, c, m, ok) == [st EXCEPT ![c] = m]

StateAfterSend_AllChats(st, c, m, ok) ==
    IF ok THEN [x \in DOMAIN st |-> m] ELSE st

\* if await send_to_converter(...): state[key_state] = msg_id
StateAfterSend(st, c, m, ok) == IF ok THEN [st EXCEPT ![c] = m] ELSE st

(***************************************************************************)
(* run_telethon_forever: the reconnect loop.                               *)
(***************************************************************************)
\* backoff = 5
InitialBackoff == 5

\* the cap in min(60, backoff * 2)
MaxBackoff == 60

\* what an await inside the try raises: TypeNotFoundError, or any other
\* subclass of Exception
Errors == {"TypeNotFoundError", "Exception"}

Caught_TypeNotFoundOnly(e) == e = "TypeNotFoundError"

\* except TypeNotFoundError / except Exception
Caught(e) == e = "TypeNotFoundError" \/ e = "Exception"

\* backoff = min(60, backoff * 2)
BackoffAfterFailure(backoff) ==
    IF backoff * 2 < MaxBackoff THEN backoff * 2 ELSE MaxBackoff

\* pc: "top" (head of the while loop), "starting" (client.start / get_me
\* awaited), "connected" (run_until_disconnected awaited), "sleeping"
\* (asyncio.sleep(backoff) awaited), "stopped" (an exception left the loop);
\* backoff: the local variable; op: history, the last step of the loop;
\* streak: history, the waits slept since the start or the last successful
\* login; endedClean: history, no connection has ended by an exception
\* since the backoff was last 5 at the start or after a clean disconnect;
\* erred: history, a handler raised during this connection
LoopInit ==
    [pc |-> "top", backoff |-> InitialBackoff, op |-> "Init", streak |-> <<>>,
     endedClean |-> TRUE, erred |-> FALSE]

NoCanon == [pc |-> "none", x |-> <<>>, once |-> <<>>, twice |-> <<>>]

NoCand == [pc |-> "none", room_hint |-> NoName, master_hint |-> NoName,
           rooms |-> <<>>, first |-> NoName]

(***************************************************************************)
(* Suspended runs and the record of the last step.                         *)
(***************************************************************************)
\* pc: the network call the run waits for: "login", "post" (first POST),
\* "alt" (POST to rooms[alt]), "retry" (POST after a forced refresh);
\* logins, posts: history, the login requests and convert-send POSTs this
\* invocation of send_to_converter has issued
Run(pc, c, m, tok, alt, force) ==
    [pc |-> pc, chat_id |-> c, msg_id |-> m, token |-> tok, alt |-> alt,
     force |-> force, logins |-> 0, posts |-> 0]

\* the run h as it waits for the call it has just issued; the calls are
\* counted at level "invocation" only
Issued(h) ==
    IF obs # "invocation" THEN h
    ELSE IF h.pc = "login" THEN [h EXCEPT !.logins = @ + 1]
    ELSE [h EXCEPT !.posts = @ + 1]

NoText == Text(FALSE, FALSE, FALSE, FALSE, FALSE)

\* op: the step; chat, msg, text: the event of the run; resp: the answer
\* received; force, preTok, preAlt: the run before the step; call: the
\* network call the step issues ("none", "login", "post"), room and tok its
\* routing name and token; done: how the run ended in this step ("none",
\* "dropped", "sent", "failed"); dup: the converter accepted a message it
\* had accepted before
FullStep(op, c, m, text, resp, force, preTok, preAlt, call, room, tok, done) ==
    [op |-> op, chat |-> c, msg |-> m, text |-> text, resp |-> resp,
     force |-> force, preTok |-> preTok, preAlt |-> preAlt, call |-> call,
     room |-> room, tok |-> tok, done |-> done,
     dup |-> resp = "ok200" /\ <<c, m>> \in delivered]

\* The part of a step that is recorded: "watermark" keeps the event and the
\* outcome, "token" the login traffic and the tokens, "routing" the answers,
\* the routing names and whether the run has refreshed its token,
\* "invocation" the answers and the calls, with the calls of each run
\* counted.
View(s) ==
    CASE obs = "watermark" ->
            [s EXCEPT !.resp = "none", !.force = FALSE, !.preTok = NoToken,
                      !.preAlt = 0, !.room = NoName, !.tok = NoToken]
      [] obs = "token" ->
            [s EXCEPT !.chat = "cy", !.msg = 0, !.text = NoText,
                      !.preAlt = 0, !.room = NoName, !.dup = FALSE,
                      !.resp = IF s.op = "LoginResponse" THEN s.resp ELSE "none"]
      [] obs = "invocation" ->
            [s EXCEPT !.chat = "cy", !.msg = 0, !.text = NoText,
                      !.preTok = NoToken, !.preAlt = 0, !.room = NoName,
                      !.tok = NoToken, !.dup = FALSE]
      [] OTHER ->
            [s EXCEPT !.msg = 0, !.text = NoText, !.dup = FALSE]

Step(op, c, m, text, resp, force, preTok, preAlt, call, room, tok, done) ==
    View(FullStep(op, c, m, text, resp, force, preTok, preAlt, call, room,
                  tok, done))

InitStep ==
    [op |-> "Init", chat |-> "cy", msg |-> 0, text |-> NoText,
     resp |-> "none", force |-> FALSE, preTok |-> NoToken, preAlt |-> 0,
     call |-> "none", room |-> NoName, tok |-> NoToken, done |-> "none",
     dup |-> FALSE]

\* the relay right after load_state() with no state file, no event handled
AtStart(level) ==
    /\ state = [c \in Chats |-> 0]
    /\ disk = [c \in Chats |-> 0]
    /\ converter_token = NoToken
    /\ token_age = TOKEN_TTL
    /\ inflight = EmptyBag
    /\ delivered = {}
    /\ calls = 0
    /\ lastStep = InitStep
    /\ obs = level

InitAt(level) ==
    /\ AtStart(level)
    /\ loop = LoopInit
    /\ canon = NoCanon
    /\ cand = NoCand

Init == InitAt("watermark")

InitToken == InitAt("token")

InitRouting == InitAt("routing")

\* The relay at the arrival of an event, whatever earlier deliveries have
\* left in the token cache: nothing, or a token stored just now; calls
\* counts the network calls issued from here on.
InitInvocation ==
    /\ state = [c \in Chats |-> 0]
    /\ disk = [c \in Chats |-> 0]
    /\ converter_token \in {NoToken, "t1"}
    /\ token_age = IF converter_token = NoToken THEN TOKEN_TTL ELSE 0
    /\ inflight = EmptyBag
    /\ delivered = {}
    /\ calls = 0
    /\ lastStep = InitStep
    /\ obs = "invocation"
    /\ loop = LoopInit
    /\ canon = NoCanon
    /\ cand = NoCand

Suspend(h) == inflight' = inflight (+) SetToBag({Issued(h)})

Resume(h, h2) ==
    inflight' = (inflight (-) SetToBag({h})) (+) SetToBag({Issued(h2)})

\* send_to_converter returned ok to on_new_message (lines 367-372) and the
\* run ends
Finish(h, ok) ==
    /\ inflight' = inflight (-) SetToBag({h})
    /\ state' = StateAfterSend(state, h.chat_id, h.msg_id, ok)
    /\ disk' = IF ok THEN state' ELSE disk
    /\ UNCHANGED <<converter_token, token_age, calls>>


(***************************************************************************)
(* on_new_message up to its first network await.                           *)
(***************************************************************************)
NewMessage(c, m, text) ==
    LET master_hint == CHAT_MASTER_MAP(c)
        last_id == state[c]
        rooms == Rooms(c)
        drop(t) == lastStep' = Step("NewMessage", c, m, t, "none", FALSE,
                                    NoToken, 0, "none", NoName, NoToken, "dropped")
    IN
    /\ UNCHANGED <<obs, loop, canon, cand>>
    /\ IF c \notin ALLOWED_CHAT_IDS \/ master_hint = NoName
       THEN /\ drop(NoText)
            /\ UNCHANGED <<state, disk, converter_token, token_age, inflight,
                           delivered, calls>>
       ELSE IF IsStale(m, last_id)
       THEN /\ drop(NoText)
            /\ UNCHANGED <<state, disk, converter_token, token_age, inflight,
                           delivered, calls>>
       ELSE IF ~looks_like_signal(text)
       THEN /\ drop(text)
            /\ UNCHANGED <<state, disk, converter_token, token_age, inflight,
                           delivered, calls>>
       ELSE \* send_to_converter: ensure_converter_token(session), then _post
            /\ calls < MaxCalls
            /\ calls' = calls + 1
            /\ IF UseCached(FALSE, converter_token, token_age)
               THEN /\ Suspend(Run("post", c, m, converter_token, 1, FALSE))
                    /\ lastStep' = Step("NewMessage", c, m, text, "none", FALSE,
                                        NoToken, 0, "post", FirstRoom(rooms),
                                        converter_token, "none")
               ELSE /\ Suspend(Run("login", c, m, NoToken, 0, FALSE))
                    /\ lastStep' = Step("NewMessage", c, m, text, "none", FALSE,
                                        NoToken, 0, "login", NoName, NoToken, "none")
            /\ UNCHANGED <<state, disk, converter_token, token_age, delivered>>

(***************************************************************************)
(* ensure_converter_token after its login POST.                            *)
(***************************************************************************)
LoginResponse(h, r) ==
    LET rooms == Rooms(h.chat_id)
        step(call, room, tok, done) ==
            Step("LoginResponse", h.chat_id, h.msg_id, NoText, r, h.force,
                 h.token, h.alt, call, room, tok, done)
    IN
    /\ h.pc = "login"
    /\ UNCHANGED <<obs, loop, canon, cand>>
    /\ converter_token' = TokenAfterLogin(converter_token, r)
    /\ IF r \in LoginFailures
       THEN \* return "": send_to_converter returns False
            /\ inflight' = inflight (-) SetToBag({h})
            /\ lastStep' = step("none", NoName, NoToken, "failed")
            /\ UNCHANGED <<token_age, state, disk, calls>>
       ELSE /\ calls < MaxCalls
            /\ calls' = calls + 1
            /\ token_age' = 0   \* _token_ts = time.time()
            /\ Resume(h, [h EXCEPT !.pc = IF h.force THEN "retry" ELSE "post",
                                   !.token = r, !.alt = 1])
            /\ lastStep' = step("post", FirstRoom(rooms), r, "none")
            /\ UNCHANGED <<state, disk>>
    /\ UNCHANGED delivered

(***************************************************************************)
(* send_to_converter after the answer to a convert-send POST.              *)
(***************************************************************************)
\* the run ends with send_to_converter returning ok
Return(h, r, ok) ==
    /\ Finish(h, ok)
    /\ delivered' = IF r = "ok200"
                    THEN delivered \cup {<<h.chat_id, h.msg_id>>}
                    ELSE delivered
    /\ lastStep' = Step(CASE h.pc = "post" -> "PostResponse"
                          [] h.pc = "alt" -> "AltResponse"
                          [] OTHER -> "RetryResponse",
                        h.chat_id, h.msg_id, NoText, r, h.force, h.token,
                        h.alt, "none", NoName, NoToken,
                        IF ok THEN "sent" ELSE "failed")

\* the run issues another network call and stays suspended
Continue(h, r, op, h2, call, room, tok) ==
    /\ calls < MaxCalls
    /\ calls' = calls + 1
    /\ Resume(h, h2)
    /\ lastStep' = Step(op, h.chat_id, h.msg_id, NoText, r, h.force, h.token,
                        h.alt, call, room, tok, "none")
    /\ UNCHANGED <<state, disk, converter_token, token_age, delivered>>

PostResponse(h, r) ==
    LET rooms == Rooms(h.chat_id) IN
    /\ h.pc = "post"
    /\ UNCHANGED <<obs, loop, canon, cand>>
    /\ CASE r = "ok200" -> Return(h, r, TRUE)
         [] r = "marker400" /\ Len(rooms) > 1 ->
                Continue(h, r, "PostResponse", [h EXCEPT !.pc = "alt", !.alt = 2],
                         "post", rooms[2], h.token)
         [] r = "unauth" ->
                \* ensure_converter_token(session, force=True): APP_PIN is
                \* never empty, the login POST is issued
                Continue(h, r, "PostResponse",
                         [h EXCEPT !.pc = "login", !.force = TRUE, !.token = NoToken],
                         "login", NoName, NoToken)
         [] OTHER -> Return(h, r, FALSE)

AltResponse(h, r) ==
    LET rooms == Rooms(h.chat_id)
        next == NextAlt(rooms, h.alt)
    IN
    /\ h.pc = "alt"
    /\ UNCHANGED <<obs, loop, canon, cand>>
    /\ CASE r = "ok200" -> Return(h, r, TRUE)
         [] Raises(r) -> Return(h, r, FALSE)
         [] OTHER ->
                IF next # 0
                THEN Continue(h, r, "AltResponse", [h EXCEPT !.alt = next],
                              "post", rooms[next], h.token)
                ELSE Return(h, r, FALSE)

RetryResponse(h, r) ==
    /\ h.pc = "retry"
    /\ UNCHANGED <<obs, loop, canon, cand>>
    /\ Return(h, r, r = "ok200")

\* time passes; an age of TOKEN_TTL stands for every age >= TOKEN_TTL
Tick ==
    /\ token_age < TOKEN_TTL
    /\ UNCHANGED <<obs, loop, canon, cand>>
    /\ token_age' = IF token_age + TickStep < TOKEN_TTL
                    THEN token_age + TickStep ELSE TOKEN_TTL
    /\ lastStep' = Step("Tick", "cy", 0, NoText, "none", FALSE, NoToken, 0,
                        "none", NoName, NoToken, "none")
    /\ UNCHANGED <<state, disk, converter_token, inflight, delivered, calls>>

Next ==
    \/ \E c \in Chats : \E m \in EventIds(c), text \in Texts :
          NewMessage(c, m, text)
    \/ \E h \in BagToSet(inflight), r \in Tokens \cup LoginFailures :
          LoginResponse(h, r)
    \/ \E h \in BagToSet(inflight), r \in PostResponses : PostResponse(h, r)
    \/ \E h \in BagToSet(inflight), r \in PostResponses : AltResponse(h, r)
    \/ \E h \in BagToSet(inflight), r \in PostResponses : RetryResponse(h, r)
    \/ Tick

Spec == Init /\ [][Next]_vars

SpecToken == InitToken /\ [][Next]_vars

SpecRouting == InitRouting /\ [][Next]_vars

SpecInvocation == InitInvocation /\ [][Next]_vars

\* Every network call is answered or times out (timeout=15 / timeout=30), so
\* a suspended run is resumed; nothing makes a new event arrive.
Responses ==
    \E h \in BagToSet(inflight) :
        \/ \E r \in Tokens \cup LoginFailures : LoginResponse(h, r)
        \/ \E r \in PostResponses :
              PostResponse(h, r) \/ AltResponse(h, r) \/ RetryResponse(h, r)

FairSpec == Init /\ [][Next]_vars /\ WF_vars(Responses)

(***************************************************************************)
(* The reconnect loop (lines 321-394), on its own: what the handlers do to *)
(* the watermarks and the token cache does not influence it.               *)
(***************************************************************************)
Relay == <<state, disk, converter_token, token_age, inflight, delivered,
           calls, lastStep, obs>>

\* client = TelegramClient(...); session_http = ...; await client.start()
Attempt ==
    /\ loop.pc = "top"
    /\ loop' = [loop EXCEPT !.pc = "starting", !.op = "Attempt"]
    /\ UNCHANGED <<Relay, canon, cand>>

\* client.start() and get_me() returned, the handler is registered and
\* run_until_disconnected() is awaited
Started ==
    /\ loop.pc = "starting"
    /\ loop' = [loop EXCEPT !.pc = "connected", !.op = "Started",
                            !.streak = <<>>, !.erred = FALSE]
    /\ UNCHANGED <<Relay, canon, cand>>

\* an await inside the try raises e: the except clause doubles the backoff
\* and sleeps; an exception no clause catches leaves the loop
Fails(e) ==
    /\ loop.pc \in {"starting", "connected"}
    /\ Len(loop.streak) < MaxWaits
    /\ IF Caught(e)
       THEN LET backoff == BackoffAfterFailure(loop.backoff) IN
            loop' = [loop EXCEPT !.pc = "sleeping", !.op = "Fails",
                                 !.backoff = backoff,
                                 !.streak = Append(@, backoff),
                                 !.endedClean = @ /\ loop.pc = "starting"]
       ELSE loop' = [loop EXCEPT !.pc = "stopped", !.op = "Fails"]
    /\ UNCHANGED <<Relay, canon, cand>>

\* run_until_disconnected() returned: backoff = 5, finally, next iteration
Disconnected ==
    /\ loop.pc = "connected"
    /\ loop' = [loop EXCEPT !.pc = "top", !.op = "Disconnected",
                            !.backoff = InitialBackoff, !.endedClean = TRUE]
    /\ UNCHANGED <<Relay, canon, cand>>

\* asyncio.sleep(backoff) returned: finally, next iteration
Wake ==
    /\ loop.pc = "sleeping"
    /\ loop' = [loop EXCEPT !.pc = "top", !.op = "Wake"]
    /\ UNCHANGED <<Relay, canon, cand>>

\* on_new_message raised inside its try: except Exception logs it
HandlerError ==
    /\ loop.pc = "connected"
    /\ loop' = [loop EXCEPT !.op = "HandlerError", !.erred = TRUE]
    /\ UNCHANGED <<Relay, canon, cand>>

\* on_new_message ran to its end
HandleEvent ==
    /\ loop.pc = "connected"
    /\ loop' = [loop EXCEPT !.op = "HandleEvent"]
    /\ UNCHANGED <<Relay, canon, cand>>

NextReconnect ==
    \/ Attempt
    \/ Started
    \/ \E e \in Errors : Fails(e)
    \/ Disconnected
    \/ Wake
    \/ HandlerError
    \/ HandleEvent

InitReconnect == InitAt("reconnect")

SpecReconnect == InitReconnect /\ [][NextReconnect]_vars

\* asyncio.sleep returns after backoff seconds and the loop body then runs
\* to client.start(); nothing makes a connection attempt succeed or fail.
FairReconnect ==
    InitReconnect /\ [][NextReconnect]_vars /\ WF_vars(Wake) /\ WF_vars(Attempt)

(***************************************************************************)
(* normalize_for_converter and the Master header of on_new_message, over   *)
(* texts as sequences of lines.  One line stands for each shape the        *)
(* regular expressions tell apart.                                         *)
(***************************************************************************)
\* the lines of a message as it arrives
InputLines ==
    {"sell limit", "Sell @1.25", "Entry 1.25", "tp 1.26", "stop 1.24",
     "EUR/CHF", "Master : master_2", "good luck"}

\* the re.sub rewrites of lines 131-139, line by line
RewriteLine(line) ==
    CASE line = "sell limit" -> "Sell"
      [] line = "Entry 1.25" -> "E: 1.25"
      [] line = "tp 1.26" -> "TP: 1.26"
      [] line = "stop 1.24" -> "SL: 1.24"
      [] OTHER -> line

\* the fields looks_like_signal finds in a text
Classify(lines) ==
    Text(Range(lines) \cap {"sell limit", "Sell", "Sell @1.25"} # {},
         Range(lines) \cap {"Entry 1.25", "E: 1.25"} # {},
         "Sell @1.25" \in Range(lines),
         Range(lines) \cap {"tp 1.26", "TP: 1.26"} # {},
         Range(lines) \cap {"stop 1.24", "SL: 1.24"} # {})

normalize_for_converter(text) ==
    LET t == [i \in 1..Len(text) |-> RewriteLine(text[i])]
        direction_match == Range(t) \cap {"sell limit", "Sell", "Sell @1.25"} # {}
        entry_match == "E: 1.25" \in Range(t)
        tp_match == "TP: 1.26" \in Range(t)
        sl_match == "SL: 1.24" \in Range(t)
        pair_match == "EUR/CHF" \in Range(t)
        t2 == IF direction_match /\ entry_match /\ tp_match /\ sl_match
              THEN (IF pair_match THEN <<"EURCHF">> ELSE <<>>)
                   \o <<"Sell", "E: 1.25", "TP: 1.26", "SL: 1.24">>
              ELSE t
        \* Fallback: "@" gives the entry price when there is no "E:" line
        m == "Sell @1.25" \in Range(t2)
    IN  IF "E: 1.25" \notin Range(t2) /\ m THEN <<"E: 1.25">> \o t2 ELSE t2

\* lines 355-357: normalize_for_converter, drop Master lines, prepend the
\* Master header of the chat
Canonicalize(text) ==
    LET IsNoHeader(line) == line # "Master : master_2" IN
    <<"Master : master_2">> \o SelectSeq(normalize_for_converter(text), IsNoHeader)

\* the texts that reach line 355: classified as signals at line 352
Signals ==
    {x \in UNION {[1..n -> InputLines] : n \in 1..MaxLines} :
        looks_like_signal(Classify(x))}

InitCanon ==
    /\ AtStart("canon")
    /\ loop = LoopInit
    /\ cand = NoCand
    /\ canon \in {[pc |-> "in", x |-> x, once |-> <<>>, twice |-> <<>>] :
                     x \in Signals}

\* the handler canonicalizes the text of an event
CanonicalizeOnce ==
    /\ canon.pc = "in"
    /\ canon' = [canon EXCEPT !.pc = "once", !.once = Canonicalize(canon.x)]
    /\ UNCHANGED <<Relay, loop, cand>>

\* the canonical text is canonicalized again
CanonicalizeTwice ==
    /\ canon.pc = "once"
    /\ canon' = [canon EXCEPT !.pc = "twice", !.twice = Canonicalize(canon.once)]
    /\ UNCHANGED <<Relay, loop, cand>>

NextCanon == CanonicalizeOnce \/ CanonicalizeTwice

SpecCanon == InitCanon /\ [][NextCanon]_vars

(***************************************************************************)
(* candidate_rooms and the first POST of send_to_converter, over the hints *)
(* a payload can carry: nothing, room<N> / room_<N>, master<N> /           *)
(* master_<N>.                                                             *)
(***************************************************************************)
RoomHints ==
    {NoName} \cup {Name("room", u, n) : u \in BOOLEAN, n \in 1..MaxRoom}

MasterHints ==
    {NoName} \cup {Name("master", u, n) : u \in BOOLEAN, n \in 1..MaxRoom}

InitCandidates ==
    /\ AtStart("candidates")
    /\ loop = LoopInit
    /\ canon = NoCanon
    /\ cand \in {[pc |-> "in", room_hint |-> r, master_hint |-> m,
                   rooms |-> <<>>, first |-> NoName] :
                      r \in RoomHints, m \in MasterHints}

\* rooms = candidate_rooms()
Resolve ==
    /\ cand.pc = "in"
    /\ cand' = [cand EXCEPT !.pc = "resolved",
                            !.rooms = candidate_rooms(cand.room_hint,
                                                      cand.master_hint)]
    /\ UNCHANGED <<Relay, loop, canon>>

\* resp = await _post(token, rooms[0] if rooms else "")
FirstPost ==
    /\ cand.pc = "resolved"
    /\ cand' = [cand EXCEPT !.pc = "posted", !.first = FirstRoom(cand.rooms)]
    /\ UNCHANGED <<Relay, loop, canon>>

NextCandidates == Resolve \/ FirstPost

SpecCandidates == InitCandidates /\ [][NextCandidates]_vars

(***************************************************************************)
(* Properties.                                                             *)
(***************************************************************************)
Pipeline == <<state, disk, converter_token, token_age, inflight, delivered,
              calls>>

\* the chat of the step is whitelisted and has a master
Mapped(c) == c \in ALLOWED_CHAT_IDS /\ CHAT_MASTER_MAP(c) # NoName

\* the step handles an event of a mapped chat whose id is above the watermark
PassesWatermark(s) ==
    s.op = "NewMessage" /\ Mapped(s.chat) /\ s.msg > state[s.chat]

\* the text lacks a direction, an entry, a take profit or a stop loss
NotSignal(text) ==
    ~text.dir \/ ~(text.entry \/ text.at) \/ ~text.tp \/ ~text.sl

\* C1: an event whose message id is at or below the watermark of its chat
\* issues no login and no convert POST and leaves the watermark and the rest
\* of the pipeline state unchanged.
C1_StaleEventIgnored ==
    [][(lastStep'.op = "NewMessage" /\ lastStep'.msg <= state[lastStep'.chat])
       => (lastStep'.call = "none" /\ UNCHANGED Pipeline)]_vars

C1_Witness ==
    /\ lastStep.op = "NewMessage"
    /\ Mapped(lastStep.chat)
    /\ lastStep.msg <= state[lastStep.chat]
    /\ lastStep.done = "dropped"
    /\ BagToSet(inflight) # {}

\* C2: the watermark of every chat never decreases.
C2_WatermarkMonotonic ==
    [][\A c \in Chats : state'[c] >= state[c]]_vars

\* C3: the converter accepts (answers ok=true for) a source message
\* (chat_id, message_id) at most once.
C3_AtMostOnce == ~lastStep.dup

\* C4: per chat, events are processed in non-decreasing message id order:
\* right after a run for message m1 of a chat has ended, no event of that
\* chat with an id below m1 passes the watermark check.
C4_ProcessedInOrder ==
    [][(/\ lastStep.done \in {"sent", "failed"}
        /\ PassesWatermark(lastStep')
        /\ lastStep'.chat = lastStep.chat)
       => lastStep'.msg >= lastStep.msg]_vars

C7_FailedIsRetried ==
    \A m \in Msgs :
        [](lastStep.done = "failed" /\ lastStep.chat = "c2" /\ lastStep.msg = m
           => <>(/\ lastStep.op = "NewMessage" /\ lastStep.done = "none"
                 /\ lastStep.chat = "c2" /\ lastStep.msg = m))

C9_FailedRefreshEmptiesCache ==
    (lastStep.op = "LoginResponse" /\ lastStep.force
     /\ lastStep.resp \in LoginFailures)
        => converter_token = NoToken

\* The fallback over the candidate routing names: after a 400 with the
\* marker the next POST goes to the second candidate, after an alternate
\* that did not answer ok to the candidate after it, each with the token of
\* the first POST; an alternate that answers ok ends the run with success.
C10_Fallback ==
    LET s == lastStep
        rooms == Rooms(s.chat)
    IN  /\ Rooms("c2")[1] = Name("room", FALSE, 2)
        /\ Rooms("c2")[2] = Name("master", TRUE, 2)
        /\ (s.op = "PostResponse" /\ s.resp = "marker400" /\ Len(rooms) > 1)
              => (/\ s.call = "post" /\ s.room = rooms[2]
                  /\ s.tok = s.preTok /\ s.done = "none")
        /\ (s.op = "AltResponse" /\ s.resp = "ok200")
              => (s.done = "sent" /\ s.call = "none")
        /\ (/\ s.op = "AltResponse" /\ s.resp \notin {"ok200", "exc"}
            /\ s.preAlt < Len(rooms))
              => (/\ s.call = "post" /\ s.room = rooms[s.preAlt + 1]
                  /\ s.tok = s.preTok /\ s.done = "none")

\* C10 as stated: the fallback, and failure is returned only after every
\* remaining candidate has been tried.
C10_FailsOnlyWhenExhausted ==
    /\ C10_Fallback
    /\ (lastStep.op = "AltResponse" /\ lastStep.done = "failed")
          => lastStep.preAlt = Len(Rooms(lastStep.chat))

\* C10 amended: the fallback, and failure is returned only after every
\* remaining candidate has been tried or as soon as a POST to an alternate
\* raises a network-level exception.
C10_FailsWhenExhaustedOrException ==
    /\ C10_Fallback
    /\ (lastStep.op = "AltResponse" /\ lastStep.done = "failed")
          => (lastStep.preAlt = Len(Rooms(lastStep.chat))
              \/ lastStep.resp = "exc")

C10_Witness ==
    /\ lastStep.op = "AltResponse"
    /\ lastStep.chat = "c2"
    /\ lastStep.preAlt = 2
    /\ lastStep.resp = "ok200"
    /\ lastStep.done = "sent"

\* C11: a first POST answered 401 or 403 issues one forced login and nothing
\* else; a forced login that fails ends the run as failed without another
\* POST; a forced login that returns a token issues one POST, to the first
\* candidate routing name with the new token; whatever that POST is answered
\* ends the run without a further login or POST, and no run logs in by
\* force a second time.
C11_RefreshOnce ==
    [][LET s == lastStep'
           rooms == Rooms(s.chat)
           forced == {h \in BagToSet(inflight') : h.pc = "login" /\ h.force}
           first == IF Len(rooms) > 0 THEN rooms[1] ELSE NoName
       IN
       /\ (s.op = "PostResponse" /\ s.resp = "unauth")
          => (/\ s.call = "login" /\ s.done = "none" /\ ~s.force
              /\ calls' = calls + 1
              /\ \E h \in forced : h.chat_id = s.chat)
       /\ (s.op = "LoginResponse" /\ s.force /\ s.resp \in LoginFailures)
          => (s.call = "none" /\ s.done = "failed" /\ calls' = calls)
       /\ (s.op = "LoginResponse" /\ s.force /\ s.resp \in Tokens)
          => (/\ s.call = "post" /\ s.room = first /\ s.tok = s.resp
              /\ s.done = "none" /\ calls' = calls + 1)
       /\ (s.force /\ s.op # "LoginResponse")
          => (/\ s.op = "RetryResponse" /\ s.call = "none"
              /\ s.done = (IF s.resp = "ok200" THEN "sent" ELSE "failed")
              /\ calls' = calls)]_vars

C11_Witness ==
    /\ lastStep.op = "RetryResponse"
    /\ lastStep.force
    /\ lastStep.resp \in {"marker400", "unauth"}
    /\ lastStep.preTok \in Tokens
    /\ lastStep.done = "failed"

\* C12: a first POST answered with a status other than 200, 400, 401 and
\* 403, and a POST of any step (first, alternate, retry after a refresh)
\* that raises a network exception, end the run there: send_to_converter
\* returns False to the handler (the watermark stays as it is, nothing is
\* raised into the handler) and no further network call is issued.
C12_FailsWithoutFurtherCall ==
    [][LET s == lastStep' IN
       (\/ (s.op = "PostResponse" /\ s.resp = "other")
        \/ (s.op \in {"PostResponse", "AltResponse", "RetryResponse"}
            /\ s.resp = "exc"))
          => (/\ s.call = "none" /\ s.done = "failed"
              /\ calls' = calls
              /\ BagCardinality(inflight') = BagCardinality(inflight) - 1
              /\ UNCHANGED <<state, disk, converter_token, token_age>>)]_vars

C12_Witness ==
    /\ lastStep.op = "AltResponse"
    /\ lastStep.resp = "exc"
    /\ lastStep.preAlt < Len(Rooms(lastStep.chat))
    /\ lastStep.done = "failed"
    /\ calls < MaxCalls

\* C20: an event of a chat that is not whitelisted, or that is whitelisted
\* but has no master, issues no login and no POST and leaves every watermark
\* and the rest of the pipeline state unchanged; a step of a run for chat c
\* leaves the watermark of every other chat unchanged.
C20_UnmappedIgnoredAndFrame ==
    [][LET s == lastStep' IN
       /\ (s.op = "NewMessage"
           /\ (s.chat \notin ALLOWED_CHAT_IDS \/ CHAT_MASTER_MAP(s.chat) = NoName))
          => (s.call = "none" /\ s.done = "dropped" /\ UNCHANGED Pipeline)
       /\ \A c \in Chats \ {s.chat} :
             state'[c] = state[c] /\ disk'[c] = disk[c]]_vars

C20_Witness ==
    /\ lastStep.op = "NewMessage"
    /\ lastStep.chat = "cx"
    /\ lastStep.done = "dropped"
    /\ state["c2"] > 0
    /\ \E h \in BagToSet(inflight) : h.chat_id = "c3"

\* the larger of two numbers
Max(a, b) == IF a >= b THEN a ELSE b

\* C19: every invocation of send_to_converter has issued at most 2 login
\* requests and at most max(2, number of candidate routing names)
\* convert-send POSTs, whatever the answers; each answer either ends the
\* invocation or makes it issue one more call; an invocation that waits for
\* its first login has issued no POST, and ends without any call when that
\* login returns empty.
C19_BoundedCalls ==
    LET s == lastStep IN
    /\ \A h \in BagToSet(inflight) :
          /\ h.logins <= 2
          /\ h.posts <= Max(2, Len(Rooms(h.chat_id)))
          /\ (h.pc = "login" /\ ~h.force) => h.posts = 0
    /\ s.op \in {"LoginResponse", "PostResponse", "AltResponse", "RetryResponse"}
          => (s.call = "none") = (s.done \in {"sent", "failed"})
    /\ (s.op = "LoginResponse" /\ ~s.force /\ s.resp \in LoginFailures)
          => (s.call = "none" /\ s.done = "failed")

C19_Witness ==
    /\ calls < MaxCalls
    /\ \E h \in BagToSet(inflight) :
          /\ h.posts = Len(Rooms(h.chat_id))
          /\ h.posts > 2
          /\ h.pc = "alt"

\* the runs that hold a payload with key "<chat_id>:<message_id>" and have
\* not yet finished its delivery
Pending(c, m) ==
    {h \in BagToSet(inflight) : h.chat_id = c /\ h.msg_id = m}

\* C17: the signals awaiting delivery hold at most one entry per key
\* "<chat_id>:<message_id>".
C17_OnePendingPerKey ==
    \A c \in Chats, m \in Msgs :
        /\ Cardinality(Pending(c, m)) <= 1
        /\ \A h \in Pending(c, m) : CopiesIn(h, inflight) = 1

\* the i-th wait of the sequence 5, 10, 20, 40, 60, 60, ...
ExpectedWait(i) ==
    IF InitialBackoff * 2^(i - 1) < MaxBackoff
    THEN InitialBackoff * 2^(i - 1) ELSE MaxBackoff

\* C13: the waits of consecutive failures that follow the start or a clean
\* disconnect are 5, 10, 20, 40, 60, 60, ... seconds.
C13_WaitSequence ==
    loop.endedClean
        => \A i \in 1..Len(loop.streak) : loop.streak[i] = ExpectedWait(i)

\* C14: whenever the client has connected and logged in, the backoff that
\* the next failure starts from is 5, however the connections before ended.
C14_ResetOnConnect ==
    loop.pc = "connected" => loop.backoff = InitialBackoff

\* C15: an error raised in a handler leaves the connection and the loop as
\* they are (later events are handled); no exception of the stream leaves
\* the loop; and every wait after a failure is followed by a new
\* connection attempt.
C15_NeverStops ==
    /\ [][loop'.op = "HandlerError"
            => (loop'.pc = "connected" /\ loop'.backoff = loop.backoff)]_vars
    /\ [](loop.pc # "stopped")
    /\ [](loop.pc = "sleeping" => <>(loop.pc = "starting"))

C15_Witness ==
    /\ loop.op = "HandleEvent"
    /\ loop.erred
    /\ loop.backoff = MaxBackoff

\* C16: canonicalizing a canonical text gives the same text:
\* canonicalize(canonicalize(x)) = canonicalize(x) for every signal x.
C16_Idempotent ==
    canon.pc = "twice" => canon.twice = canon.once

\* room<N> and room_<N> for the trailing number N of a hint
Variants(hint) ==
    IF hint = NoName THEN <<>>
    ELSE <<Name("room", FALSE, hint.num), Name("room", TRUE, hint.num)>>

RECURSIVE FirstSeen(_)
\* the sequence without empty values and without repetitions, each value at
\* the place of its first occurrence
FirstSeen(seq) ==
    IF seq = <<>> THEN <<>>
    ELSE LET front == FirstSeen(SubSeq(seq, 1, Len(seq) - 1))
             last == seq[Len(seq)]
         IN  IF last = NoName \/ last \in Range(front) THEN front
             ELSE Append(front, last)

\* C18: the candidate routing names are the room hint, the master hint,
\* room<N> and room_<N> for the number of the room hint, then room<N> and
\* room_<N> for the number of the master hint, without empty values and
\* repetitions, in first-seen order; the first POST goes to the first of
\* them, which is the room hint when that is not empty.
C18_CandidateOrder ==
    LET claimed == FirstSeen(<<cand.room_hint, cand.master_hint>>
                             \o Variants(cand.room_hint)
                             \o Variants(cand.master_hint))
    IN  /\ cand.pc \in {"resolved", "posted"} => cand.rooms = claimed
        /\ cand.pc = "posted"
              => /\ cand.first = (IF claimed = <<>> THEN NoName ELSE claimed[1])
                 /\ cand.room_hint # NoName => cand.first = cand.room_hint

C18_Witness ==
    /\ cand.pc = "posted"
    /\ cand.room_hint = Name("room", FALSE, 2)
    /\ cand.master_hint = Name("master", TRUE, 3)
    /\ cand.rooms = <<Name("room", FALSE, 2), Name("master", TRUE, 3),
                      Name("room", TRUE, 2), Name("room", FALSE, 3),
                      Name("room", TRUE, 3)>>
    /\ cand.first = Name("room", FALSE, 2)

====
